---- MODULE Spec2Model ----
(***************************************************************************)
(* Frame selection of annolid/data/videos.py: extract_frames (keep-all,    *)
(* reservoir 'random', heap based 'flow') and key_frames.                  *)
(*                                                                         *)
(* A video is N frames, identified by their index 0..N-1.  The read of     *)
(* frame badAt fails (badAt = N: only the read past the last frame fails). *)
(* A pixel buffer is identified with the index of its frame.               *)
(***************************************************************************)
EXTENDS Integers, Sequences, FiniteSets

\* ---------------------------------------------------------------- bounds
MaxN == 6
MaxScore == 1

\* ---------------------------------------------------------------- values
None == 0 - 1
Algos == {"flow", "random", "keyframes", "other"}
Ks == (0 - 2)..(MaxN + 1)
Scores == 0..MaxScore

VARIABLES
    algo,              \* parameter algo
    K,                 \* parameter num_frames as the caller gave it
    keep_first_frame,  \* parameter keep_first_frame
    show_flow,         \* parameter show_flow
    sub_clip,          \* sub_clip and start_seconds/end_seconds both given
    N,                 \* frames in the opened stream, cap.get(7)
    badAt,             \* index of the first frame whose read fails
    key_idxs,          \* vr.get_key_indices() of the opened stream
    pc,                \* position in extract_frames / key_frames
    num_frames,        \* local num_frames (decremented at line 219)
    pos,               \* cap.get(1): index of the next frame to decode
    ret,               \* result flag of the last cap.read()
    old_frame,         \* previous-frame reference
    keeped_frames,     \* retained records <<s, f>>
    ki,                \* reservoir counter / key frame loop cursor
    written,           \* output file names, in the order written
    got,               \* frames returned by successful reads, in order
    reads,             \* number of cap.read() calls
    attempts,          \* flow scoring attempts <<old_frame, frame, ok>>
    dropped,           \* scored records pushed out of / refused by the heap
    lastOffer,         \* <<heap before, record>> of the latest offer to the heap
    clips,             \* files extract_subclip was invoked on, in order
    video_file,        \* 0: the input file, d: a sub-clip of depth d
    window,            \* an imshow window exists
    escaped            \* the loop was left by key == 27

params == <<algo, K, keep_first_frame, show_flow, sub_clip, N, badAt, key_idxs>>
vars == <<algo, K, keep_first_frame, show_flow, sub_clip, N, badAt, key_idxs,
          pc, num_frames, pos, ret, old_frame, keeped_frames, ki, written,
          got, reads, attempts, dropped, lastOffer, clips, video_file, window,
          escaped>>

\* ------------------------------------------------------------ file names
\* f"{f:08}.jpg" and f"{f:08}_{s}.jpg": a name is the tuple of its fields.
PlainName(f) == <<f>>
ScoredName(f, s) == <<f, s>>

\* --------------------------------------------------------------- stream
\* cap.read() at position p: <<ret, frame, new position>>.
CapRead(p) == IF p < badAt THEN <<TRUE, p, p + 1>> ELSE <<FALSE, None, p>>

\* ascending sequence of the members of a set of frame indices
RECURSIVE Ascending(_)
Ascending(S) ==
    IF S = {} THEN <<>>
    ELSE LET m == CHOOSE x \in S : \A y \in S : x <= y
         IN <<m>> \o Ascending(S \ {m})

\* ----------------------------------------------------------------- heapq
\* variant of TupleLt: records compared by score alone
ScoreLt(a, b) == a[1] < b[1]

\* Python tuple comparison of records (q_score, frame_number, frame).
TupleLt(a, b) == a[1] < b[1] \/ (a[1] = b[1] /\ a[2] < b[2])

\* heap positions are 0-based as in heapq; At/Put translate to Sequences.
At(h, i) == h[i + 1]
Put(h, i, x) == [h EXCEPT ![i + 1] = x]

RECURSIVE SiftDownLoop(_, _, _, _)
SiftDownLoop(h, startpos, p, newitem) ==
    IF p > startpos
    THEN LET parentpos == (p - 1) \div 2
             parent == At(h, parentpos)
         IN IF TupleLt(newitem, parent)
            THEN SiftDownLoop(Put(h, p, parent), startpos, parentpos, newitem)
            ELSE Put(h, p, newitem)
    ELSE Put(h, p, newitem)

SiftDown(h, startpos, p) == SiftDownLoop(h, startpos, p, At(h, p))

RECURSIVE SiftUpLoop(_, _, _, _)
SiftUpLoop(h, startpos, p, newitem) ==
    LET childpos == 2 * p + 1
        rightpos == childpos + 1
        c == IF rightpos < Len(h) /\ ~TupleLt(At(h, childpos), At(h, rightpos))
             THEN rightpos ELSE childpos
    IN IF childpos < Len(h)
       THEN SiftUpLoop(Put(h, p, At(h, c)), startpos, c, newitem)
       ELSE SiftDown(Put(h, p, newitem), startpos, p)

SiftUp(h, p) == SiftUpLoop(h, p, p, At(h, p))

HeapPush(h, item) == SiftDown(Append(h, item), 0, Len(h))

\* variant of HeapPushPop: the root is replaced without comparing (heapreplace)
HeapReplace(h, item) ==
    IF Len(h) > 0
    THEN <<SiftUp(Put(h, 0, item), 0), At(h, 0)>>
    ELSE <<h, item>>

\* heappushpop: <<heap afterwards, item returned>>
HeapPushPop(h, item) ==
    IF Len(h) > 0 /\ TupleLt(At(h, 0), item)
    THEN <<SiftUp(Put(h, 0, item), 0), At(h, 0)>>
    ELSE <<h, item>>

\* variant of Offer: the capacity test is off by one
OfferOffByOne(h, item, cap) ==
    IF Len(h) <= cap
    THEN <<HeapPush(h, item), {}>>
    ELSE LET r == HeapPushPop(h, item) IN <<r[1], {r[2]}>>

\* lines 279-284: offer a scored record: <<heap afterwards, records dropped>>
Offer(h, item, cap) ==
    IF Len(h) < cap
    THEN <<HeapPush(h, item), {}>>
    ELSE LET r == HeapPushPop(h, item) IN <<r[1], {r[2]}>>

\* lines 241-250: reservoir step with draw j
Reservoir(h, k, frame_number, cap, j) ==
    IF Len(h) < cap
    THEN Append(h, <<k, frame_number>>)
    ELSE IF j < cap THEN Put(h, j, <<j, frame_number>>) ELSE h

\* variant of RetainedNames: the records are written under plain names
RetainedPlainNames(h) == [i \in 1..Len(h) |-> PlainName(h[i][2])]

\* variant of RetainedNames: the records are sorted by frame index first
RetainedNamesSorted(h) ==
    LET fs == Ascending({h[i][2] : i \in 1..Len(h)})
        rec(f) == CHOOSE r \in {h[i] : i \in 1..Len(h)} : r[2] = f
    IN [i \in 1..Len(fs) |-> ScoredName(fs[i], rec(fs[i])[1])]

\* lines 297-299: names of the retained records, in list order
RetainedNames(h) == [i \in 1..Len(h) |-> ScoredName(h[i][2], h[i][1])]

\* ------------------------------------------------------------------ Init
Init ==
    /\ algo \in Algos
    /\ K \in Ks
    /\ keep_first_frame \in BOOLEAN
    /\ show_flow \in (IF algo = "flow" THEN BOOLEAN ELSE {FALSE})
    /\ sub_clip \in BOOLEAN
    /\ N \in 0..MaxN
    /\ badAt \in (IF algo = "keyframes" THEN {N} ELSE 0..N)
    /\ key_idxs \in (IF algo = "keyframes"
                     THEN {Ascending(S) : S \in SUBSET (0..(N - 1))}
                     ELSE {<<>>})
    /\ pc = "start"
    /\ num_frames = K
    /\ pos = 0
    /\ ret = FALSE
    /\ old_frame = None
    /\ keeped_frames = <<>>
    /\ ki = 0
    /\ written = <<>>
    /\ got = <<>>
    /\ reads = 0
    /\ attempts = <<>>
    /\ dropped = {}
    /\ lastOffer = <<>>
    /\ clips = <<>>
    /\ video_file = 0
    /\ window = FALSE
    /\ escaped = FALSE

\* ---------------------------------------------------------------- actions
\* lines 169-180: optional sub-clip of the input, then the output directory.
\* ffmpeg_extract_subclip raises IOError when the tool exits non-zero.
Start ==
    /\ pc = "start"
    /\ IF sub_clip
       THEN /\ clips' = Append(clips, video_file)
            /\ \/ video_file' = video_file + 1 /\ pc' = "dispatch"
               \/ video_file' = video_file /\ pc' = "raised"
       ELSE /\ pc' = "dispatch"
            /\ UNCHANGED <<clips, video_file>>
    /\ UNCHANGED <<params, num_frames, pos, ret, old_frame, keeped_frames, ki,
                   written, got, reads, attempts, dropped, lastOffer, window, escaped>>

\* lines 182-183 and 124-140: keyframes mode enters key_frames, which
\* evaluates the sub-clip condition again on the file it was handed.
KeyFramesEnter ==
    /\ pc = "dispatch"
    /\ algo = "keyframes"
    /\ IF sub_clip
       THEN /\ clips' = Append(clips, video_file)
            /\ \/ video_file' = video_file + 1 /\ pc' = "key_loop"
               \/ video_file' = video_file /\ pc' = "raised"
       ELSE /\ pc' = "key_loop"
            /\ UNCHANGED <<clips, video_file>>
    /\ UNCHANGED <<params, num_frames, pos, ret, old_frame, keeped_frames, ki,
                   written, got, reads, attempts, dropped, lastOffer, window, escaped>>

\* variant of KeyFrameWrite: the file is named after the loop position
KeyFrameWriteByPosition ==
    /\ pc = "key_loop"
    /\ Len(written) < Len(key_idxs)
    /\ ki' = Len(written)
    /\ written' = Append(written, PlainName(ki'))
    /\ UNCHANGED <<params, pc, num_frames, pos, ret, old_frame, keeped_frames,
                   got, reads, attempts, dropped, lastOffer, clips, video_file,
                   window, escaped>>

\* lines 141-146: one iteration of "for ki in key_idxs".
KeyFrameWrite ==
    /\ pc = "key_loop"
    /\ Len(written) < Len(key_idxs)
    /\ ki' = key_idxs[Len(written) + 1]
    /\ written' = Append(written, PlainName(ki'))
    /\ UNCHANGED <<params, pc, num_frames, pos, ret, old_frame, keeped_frames,
                   got, reads, attempts, dropped, lastOffer, clips, video_file,
                   window, escaped>>

\* lines 147-148 and 187: the key index loop is exhausted.
KeyFramesReturn ==
    /\ pc = "key_loop"
    /\ Len(written) = Len(key_idxs)
    /\ pc' = "done"
    /\ UNCHANGED <<params, num_frames, pos, ret, old_frame, keeped_frames, ki,
                   written, got, reads, attempts, dropped, lastOffer, clips,
                   video_file, window, escaped>>

\* lines 207-219: outcome of the num_frames checks: <<next pc, num_frames>>.
Validate(nf, n_frames, kff) ==
    IF nf < 0 - 1 \/ nf > n_frames THEN <<"rejected", nf>>
    ELSE IF nf = 1 THEN <<"first_only", nf>>
    ELSE IF nf > 2 /\ kff THEN <<"scan", nf - 1>>
    ELSE <<"scan", nf>>

\* lines 189-225: open the capture, read the first frame, save it when
\* keep_first_frame, validate num_frames, set up hsv.  cv2.imwrite of a
\* missing frame (line 205) and hsv[..., 1] of zeros_like(None) (line 222)
\* raise.
OpenAndValidate ==
    /\ pc = "dispatch"
    /\ algo # "keyframes"
    /\ LET r == CapRead(pos)
           v == Validate(num_frames, N, keep_first_frame)
       IN /\ reads' = reads + 1
          /\ ret' = r[1]
          /\ old_frame' = r[2]
          /\ pos' = r[3]
          /\ got' = IF r[1] THEN Append(got, r[2]) ELSE got
          /\ IF keep_first_frame /\ ~r[1]
             THEN pc' = "crashed" /\ UNCHANGED <<written, num_frames>>
             ELSE /\ written' = IF keep_first_frame
                                THEN Append(written, PlainName(pos))
                                ELSE written
                  /\ num_frames' = v[2]
                  /\ pc' = IF v[1] = "scan" /\ ~r[1] THEN "crashed" ELSE v[1]
    /\ UNCHANGED <<params, keeped_frames, ki, attempts, dropped, lastOffer,
                   clips, video_file, window, escaped>>

\* variant of LoopPc: a failed read does not leave the loop
LoopPcContinue(ok) == "scan"

\* line 227, "while ret": where the loop goes after a read that returned ok.
LoopPc(ok) == IF ok THEN "scan" ELSE "write"

\* variant of NextOld: the reference moves only when the frame was scored
NextOldOnSuccess(old, frame, scored) == IF scored THEN frame ELSE old

\* line 291, "old_frame = frame", after the try block whatever its outcome.
NextOld(old, frame, scored) == frame

\* lines 227-238: one iteration of the loop with num_frames == -1.
ScanKeepAll ==
    /\ pc = "scan"
    /\ num_frames = 0 - 1
    /\ LET frame_number == pos
           r == CapRead(pos)
       IN /\ reads' = reads + 1
          /\ ret' = r[1]
          /\ pos' = r[3]
          /\ got' = IF r[1] THEN Append(got, r[2]) ELSE got
          /\ written' = IF r[1] THEN Append(written, PlainName(frame_number))
                        ELSE written
          /\ pc' = LoopPc(r[1])
    /\ UNCHANGED <<params, num_frames, old_frame, keeped_frames, ki, attempts,
                   dropped, lastOffer, clips, video_file, window, escaped>>

\* lines 227-231 and 239-253: one iteration of the loop with algo 'random'.
ScanRandom ==
    /\ pc = "scan"
    /\ num_frames # 0 - 1
    /\ algo = "random"
    /\ LET frame_number == pos
           r == CapRead(pos)
       IN /\ reads' = reads + 1
          /\ ret' = r[1]
          /\ pos' = r[3]
          /\ got' = IF r[1] THEN Append(got, r[2]) ELSE got
          /\ IF r[1]
             THEN /\ \E j \in 0..ki :
                        keeped_frames' =
                            Reservoir(keeped_frames, ki, frame_number, num_frames, j)
                  /\ ki' = ki + 1
             ELSE UNCHANGED <<keeped_frames, ki>>
          /\ pc' = LoopPc(r[1])
    /\ UNCHANGED <<params, num_frames, old_frame, written, attempts, dropped,
                   lastOffer, clips, video_file, window, escaped>>

\* lines 227-231 and 254-295: one iteration of the loop with algo 'flow'.
\* The masks of lines 255-260 are computed outside the try block; with a
\* missing frame they are empty and cvtColor (line 262) raises inside it.
\* With real frames the scoring of lines 262-275 either yields q_score or
\* raises (caught at line 288).  key == 27 needs an imshow window.
ScanFlow ==
    /\ pc = "scan"
    /\ num_frames # 0 - 1
    /\ algo = "flow"
    /\ LET frame_number == pos
           r == CapRead(pos)
           frame == r[2]
       IN /\ reads' = reads + 1
          /\ ret' = r[1]
          /\ pos' = r[3]
          /\ got' = IF r[1] THEN Append(got, frame) ELSE got
          /\ \/ /\ frame # None /\ old_frame # None
                /\ \E q_score \in Scores :
                     LET o == Offer(keeped_frames, <<q_score, frame_number>>,
                                    num_frames)
                     IN /\ keeped_frames' = o[1]
                        /\ dropped' = dropped \cup o[2]
                        /\ lastOffer' = <<keeped_frames,
                                          <<q_score, frame_number>>>>
                /\ attempts' = Append(attempts, <<old_frame, frame, TRUE>>)
                /\ window' = (window \/ show_flow)
             \/ /\ attempts' = Append(attempts, <<old_frame, frame, FALSE>>)
                /\ UNCHANGED <<keeped_frames, dropped, lastOffer, window>>
          /\ old_frame' = NextOld(old_frame, frame,
                                   attempts'[Len(attempts')][3])
          /\ \/ /\ escaped' = FALSE
                /\ pc' = LoopPc(r[1])
             \/ /\ window'
                /\ escaped' = TRUE
                /\ pc' = "write"
    /\ UNCHANGED <<params, num_frames, ki, written, clips, video_file>>

\* lines 227-231 and 293-295: one iteration of the loop when algo is none
\* of 'keyframes', 'random', 'flow': the frame is read and nothing is done.
ScanOther ==
    /\ pc = "scan"
    /\ num_frames # 0 - 1
    /\ algo = "other"
    /\ LET r == CapRead(pos)
       IN /\ reads' = reads + 1
          /\ ret' = r[1]
          /\ pos' = r[3]
          /\ got' = IF r[1] THEN Append(got, r[2]) ELSE got
          /\ pc' = LoopPc(r[1])
    /\ UNCHANGED <<params, num_frames, old_frame, keeped_frames, ki, written,
                   attempts, dropped, lastOffer, clips, video_file, window,
                   escaped>>

\* lines 297-304: every retained record is written, in list order.
WriteRetained ==
    /\ pc = "write"
    /\ written' = written \o RetainedNames(keeped_frames)
    /\ pc' = "done"
    /\ UNCHANGED <<params, num_frames, pos, ret, old_frame, keeped_frames, ki,
                   got, reads, attempts, dropped, lastOffer, clips, video_file,
                   window, escaped>>

Next ==
    \/ Start
    \/ KeyFramesEnter
    \/ KeyFrameWrite
    \/ KeyFramesReturn
    \/ OpenAndValidate
    \/ ScanKeepAll
    \/ ScanRandom
    \/ ScanFlow
    \/ ScanOther
    \/ WriteRetained

Spec == Init /\ [][Next]_vars

\* ------------------------------------------------------------ type check
TypeOK ==
    /\ pc \in {"start", "dispatch", "key_loop", "scan", "write", "done",
               "rejected", "first_only", "crashed", "raised"}
    /\ num_frames \in Ks
    /\ pos \in 0..N
    /\ ret \in BOOLEAN
    /\ old_frame \in {None} \cup 0..(N - 1)
    /\ ki \in 0..N
    /\ reads \in 0..(N + 1)
    /\ Len(attempts) <= N
    /\ Len(clips) <= 2

\* ------------------------------------------------------------ properties
Retained == {keeped_frames[i] : i \in 1..Len(keeped_frames)}
FramesOf(S) == {r[2] : r \in S}
Range(q) == {q[i] : i \in 1..Len(q)}
ScoredOk == {attempts[i][2] : i \in {k \in 1..Len(attempts) : attempts[k][3]}}
ScoreFailed == {attempts[i][2] : i \in {k \in 1..Len(attempts) : ~attempts[k][3]}}
Min(a, b) == IF a < b THEN a ELSE b
MinScore(h) == CHOOSE m \in {h[i][1] : i \in 1..Len(h)} :
                   \A i \in 1..Len(h) : m <= h[i][1]
\* the latest offer met a heap that was full (and not empty)
OfferedAtCapacity ==
    /\ lastOffer # <<>>
    /\ Len(lastOffer[1]) > 0
    /\ Len(lastOffer[1]) = num_frames

\* C1: in 'flow' and 'random' modes with K >= 0 the retained collection
\* keeped_frames never holds more than K records, in any state of the run.
C1_RetainedAtMostK ==
    (algo \in {"flow", "random"} /\ K >= 0) => Len(keeped_frames) <= K

\* C1 witness: a full heap of K >= 2 records that has already dropped one.
C1_Witness ==
    /\ algo = "flow"
    /\ K >= 2
    /\ Len(keeped_frames) = K
    /\ dropped # {}

\* C2 (as claimed): in 'flow' mode with every pair scored, and in 'random'
\* mode, with 0 < K <= N and keep_first_frame off, a run that scanned to the
\* end of the stream ends with exactly min(K, N) retained records.
C2_Original ==
    ( /\ pc = "done"
      /\ algo \in {"flow", "random"}
      /\ 0 < K /\ K <= N
      /\ ~keep_first_frame
      /\ badAt = N
      /\ ~escaped
      /\ \A i \in 1..Len(attempts) : attempts[i][3] \/ attempts[i][2] = None )
    => Len(keeped_frames) = Min(K, N)

\* C3: in 'flow' mode no record that the heap dropped has a score greater
\* than a record it retains, and every successfully scored frame is either
\* retained or dropped, never both.
C3_NoDroppedOutscoresRetained ==
    algo = "flow" =>
        /\ \A d \in dropped : \A r \in Retained : d[1] <= r[1]
        /\ FramesOf(Retained) \cup FramesOf(dropped) = ScoredOk
        /\ FramesOf(Retained) \cap FramesOf(dropped) = {}
        /\ Cardinality(Retained) = Len(keeped_frames)

\* C3 witness: a finished run whose full heap of at least two records
\* retains a frame that outscores an earlier frame it dropped.
C3_Witness ==
    /\ algo = "flow"
    /\ pc = "done"
    /\ Len(keeped_frames) >= 2
    /\ \E d \in dropped : \E r \in Retained : d[1] < r[1] /\ d[2] < r[2]

\* C4 (as claimed): when the heap is at capacity and the incoming score
\* equals the minimum held score, the incoming record is dropped and the
\* heap is left as it was; the heap changes only for a strictly greater score.
C4_Original ==
    OfferedAtCapacity =>
        LET before == lastOffer[1]
            item == lastOffer[2]
        IN /\ item[1] = MinScore(before) =>
                  (keeped_frames = before /\ item \in dropped)
           /\ keeped_frames # before => item[1] > MinScore(before)

\* C4 (amended): when the heap is at capacity and the incoming score equals
\* the minimum held score, the earliest-arriving record holding that minimum
\* is evicted and the incoming record is retained; the incoming record is
\* dropped only when its score is strictly less than the minimum held score.
C4_TieEvictsEarlier ==
    OfferedAtCapacity =>
        LET before == lastOffer[1]
            item == lastOffer[2]
            m == MinScore(before)
            root == At(before, 0)
        IN /\ root[1] = m
           /\ \A i \in 1..Len(before) : before[i][1] = m => root[2] <= before[i][2]
           /\ item[1] < m => (keeped_frames = before /\ item \in dropped)
           /\ item[1] >= m => /\ root \in dropped
                              /\ root \notin Retained
                              /\ item \in Retained

\* C4 witness: a tie at a full heap of at least two records; the incoming
\* record is in the heap afterwards.
C4_Witness ==
    /\ OfferedAtCapacity
    /\ Len(lastOffer[1]) >= 2
    /\ lastOffer[2][1] = MinScore(lastOffer[1])
    /\ lastOffer[2] \in Retained

\* C5: in 'keyframes' mode, whatever K is, the files written are the
\* stream's key indices, each once and in ascending order (a prefix of them
\* while the loop runs, all of them at the end); no frame is read through
\* the capture, nothing is scored, retained or dropped.
C5_KeyframesPassThrough ==
    algo = "keyframes" =>
        /\ Len(written) <= Len(key_idxs)
        /\ \A i \in 1..Len(written) : written[i] = PlainName(key_idxs[i])
        /\ \A i \in 1..Len(written) : \A j \in 1..Len(written) :
               i < j => written[i][1] < written[j][1]
        /\ pc = "done" => Len(written) = Len(key_idxs)
        /\ keeped_frames = <<>> /\ attempts = <<>> /\ dropped = {}
        /\ reads = 0

\* C5 witness: a finished keyframes run with K = 0 and at least two key
\* indices, the first of which is not frame 0.
C5_Witness ==
    /\ algo = "keyframes"
    /\ pc = "done"
    /\ K = 0
    /\ Len(key_idxs) >= 2
    /\ key_idxs[1] > 0
    /\ Len(written) = Len(key_idxs)

\* C6 (as claimed): with K = -1, for either keep_first_frame, a run over a
\* fully readable N-frame stream writes frames 0..N-1, each once, in order,
\* scores nothing and retains nothing.
C6_Original ==
    (K = 0 - 1 /\ algo # "keyframes" /\ pc = "done" /\ badAt = N) =>
        /\ written = [i \in 1..N |-> PlainName(i - 1)]
        /\ attempts = <<>>
        /\ keeped_frames = <<>>

\* C7 (as claimed): with K = 1 in a non-keyframe mode over a stream whose
\* first frame is readable, for either keep_first_frame, the scan loop is
\* never entered, no frame after the first is read, and the run that
\* returns has written exactly frame 0.
C7_Original ==
    (K = 1 /\ algo # "keyframes" /\ badAt >= 1) =>
        /\ pc \notin {"scan", "write", "done"}
        /\ reads <= 1
        /\ pc = "first_only" => written = <<PlainName(0)>>

\* an invalid configuration of a non-keyframe run
InvalidConfig ==
    /\ algo # "keyframes"
    /\ \/ K < 0 - 1
       \/ K = 0
       \/ K > N /\ algo \in {"flow", "random"}
       \/ algo \notin {"flow", "random"}

\* C8 (as claimed): a run with an invalid configuration reads no frame,
\* never enters the scan loop and writes no file.
C8_Original ==
    InvalidConfig =>
        /\ got = <<>>
        /\ written = <<>>
        /\ pc \notin {"scan", "write", "done"}

\* C9 (as claimed): a run that entered the scan loop and met a failed read
\* followed by readable frames still reads every later frame.
C9_Original ==
    ( /\ pc = "done"
      /\ algo # "keyframes"
      /\ reads >= 2
      /\ ~escaped
      /\ 1 <= badAt /\ badAt < N - 1 )
    => \A f \in (badAt + 1)..(N - 1) : f \in Range(got)

\* C9 (amended): the first failed read ends the scan, whether or not
\* readable frames follow: no read is made after it, the failed frame and
\* the frames after it are never read, retained or written, and the run
\* goes on to write what it retained.
C9_FailedReadEndsScan ==
    algo # "keyframes" =>
        /\ reads <= badAt + 1
        /\ got = [i \in 1..Len(got) |-> i - 1]
        /\ Len(got) <= badAt
        /\ (reads >= 2 /\ ~ret) =>
               /\ pc \in {"write", "done"}
               /\ reads = badAt + 1
               /\ Len(got) = badAt
        /\ \A r \in Retained : r[2] < badAt
        /\ \A i \in 1..Len(written) : written[i][1] < badAt

\* C9 witness: a finished 'flow' run whose scan met a failed read that
\* readable frames follow, after it had retained a record.
C9_Witness ==
    /\ pc = "done"
    /\ algo = "flow"
    /\ ~escaped
    /\ 1 <= badAt /\ badAt < N - 1
    /\ reads = badAt + 1
    /\ Len(keeped_frames) >= 1

\* C10 (as claimed): a frame whose scoring failed is not offered to the
\* heap and leaves the previous-frame reference as it was, so the next
\* attempt uses the same reference.
C10_Original ==
    algo = "flow" =>
        /\ ScoreFailed \cap FramesOf(Retained \cup dropped) = {}
        /\ \A i \in 1..(Len(attempts) - 1) :
               (~attempts[i][3] /\ attempts[i + 1][2] # None) =>
                   attempts[i + 1][1] = attempts[i][1]

\* C10 (amended): a frame whose scoring failed is not offered to the heap,
\* and the previous-frame reference always becomes the frame just read,
\* whether it was scored or not, so the next frame is scored against the
\* frame that failed.
C10_ReferenceAlwaysAdvances ==
    algo = "flow" =>
        /\ ScoreFailed \cap FramesOf(Retained \cup dropped) = {}
        /\ \A i \in 1..(Len(attempts) - 1) :
               attempts[i + 1][1] = attempts[i][2]
        /\ Len(attempts) > 0 => old_frame = attempts[Len(attempts)][2]

\* C10 witness: a failed scoring of a real frame followed by a successful
\* scoring of the next frame.
C10_Witness ==
    \E i \in 1..(Len(attempts) - 1) :
        /\ ~attempts[i][3]
        /\ attempts[i][2] # None
        /\ attempts[i + 1][3]

\* number of equally likely draw sequences of the 'random' loop that, from
\* reservoir h with counter k, offer frames fn..last and end with frame f
\* retained (each iteration draws j uniformly in 0..k)
RECURSIVE Hits(_, _, _, _, _, _)
Hits(h, k, fn, last, cap, f) ==
    IF fn > last
    THEN IF f \in FramesOf(Range(h)) THEN 1 ELSE 0
    ELSE LET step[j \in 0..(k + 1)] ==
                 IF j > k THEN 0
                 ELSE Hits(Reservoir(h, k, fn, cap, j), k + 1, fn + 1, last,
                           cap, f) + step[j + 1]
         IN step[0]

\* number of draw sequences of the same iterations
RECURSIVE Paths(_, _, _)
Paths(k, fn, last) ==
    IF fn > last THEN 1 ELSE (k + 1) * Paths(k + 1, fn + 1, last)

\* C11 (as claimed): in 'random' mode with 2 <= K <= N over a fully
\* readable N-frame stream, when the scan loop starts, every frame 0..N-1
\* ends in the retained set in exactly K out of N of the equally likely
\* draw sequences of the loop.
C11_Original ==
    ( /\ algo = "random"
      /\ pc = "scan"
      /\ reads = 1
      /\ badAt = N
      /\ 2 <= K /\ K <= N )
    => \A f \in 0..(N - 1) :
           Hits(keeped_frames, ki, pos, N - 1, num_frames, f) * N
               = K * Paths(ki, pos, N - 1)

\* the files written before the final loop: the first frame, when kept
FirstFrameNames == IF keep_first_frame THEN <<PlainName(0)>> ELSE <<>>
\* the files written by the final loop over keeped_frames
FinalLoopNames == SubSeq(written, Len(FirstFrameNames) + 1, Len(written))

\* C12 (as claimed): records retained in 'random' mode (K other than -1)
\* carry no score and are written as "{index:08d}.jpg"; only 'flow' records get a suffix.
C12_Original ==
    (algo = "random" /\ K # 0 - 1 /\ pc = "done") =>
        \A i \in 1..Len(written) : Len(written[i]) = 1

\* C12 (amended): records retained in 'flow' mode carry their score and
\* records retained in 'random' mode carry the index of their reservoir
\* slot in its place; both are written as "{index:08d}_{s}.jpg" with that
\* score or slot index.  Key frames, keep-all frames and the kept first
\* frame are written as "{index:08d}.jpg".
C12_SuffixIsScoreOrSlot ==
    /\ algo = "random" =>
           \A i \in 1..Len(keeped_frames) : keeped_frames[i][1] = i - 1
    /\ algo = "flow" =>
           \A r \in Retained : r[1] \in Scores /\ r[2] \in ScoredOk
    /\ (algo \in {"flow", "random"} /\ K # 0 - 1 /\ pc = "done") =>
           /\ Len(written) = Len(FirstFrameNames) + Len(keeped_frames)
           /\ \A i \in 1..Len(FirstFrameNames) : written[i] = FirstFrameNames[i]
           /\ \A i \in 1..Len(keeped_frames) :
                  FinalLoopNames[i] =
                      <<keeped_frames[i][2], keeped_frames[i][1]>>
    /\ (algo = "keyframes" \/ num_frames = 0 - 1) =>
           \A i \in 1..Len(written) : Len(written[i]) = 1

\* C12 witness: a finished 'random' run that wrote at least two retained
\* records, one of them in a slot that was overwritten.
C12_Witness ==
    /\ algo = "random"
    /\ pc = "done"
    /\ Len(keeped_frames) >= 2
    /\ \E i \in 1..Len(keeped_frames) : keeped_frames[i][2] > i
    /\ \E i \in 1..Len(written) : Len(written[i]) = 2

\* C13 (as claimed): in 'flow' and 'random' modes (K other than -1) the
\* retained records are written in ascending order of frame index.
C13_Original ==
    (algo \in {"flow", "random"} /\ K # 0 - 1 /\ pc = "done") =>
        \A i \in 1..Len(FinalLoopNames) : \A j \in 1..Len(FinalLoopNames) :
            i < j => FinalLoopNames[i][1] < FinalLoopNames[j][1]

\* C13 (amended): in 'flow' and 'random' modes the retained records are
\* written in the order they lie in keeped_frames, without sorting: heap
\* array order in 'flow' mode (the record with the least (score, index)
\* first, every record after its heap parent), slot order in 'random' mode;
\* a frame with a larger index may be written before one with a smaller.
C13_WrittenInListOrder ==
    /\ algo = "flow" =>
           \A i \in 1..(Len(keeped_frames) - 1) :
               ~TupleLt(At(keeped_frames, i), At(keeped_frames, (i - 1) \div 2))
    /\ (algo \in {"flow", "random"} /\ K # 0 - 1 /\ pc = "done") =>
           /\ Len(FinalLoopNames) = Len(keeped_frames)
           /\ \A i \in 1..Len(keeped_frames) :
                  FinalLoopNames[i][1] = keeped_frames[i][2]

\* C13 witness: a finished 'flow' run that wrote a retained frame before a
\* retained frame with a smaller index.
C13_Witness ==
    /\ algo = "flow"
    /\ pc = "done"
    /\ \E i \in 1..Len(FinalLoopNames) : \E j \in 1..Len(FinalLoopNames) :
           i < j /\ FinalLoopNames[i][1] > FinalLoopNames[j][1]

\* C14 (as claimed): with keep_first_frame, in 'flow' or 'random' mode with
\* 2 <= K <= N, a fully readable stream and every frame scored, the run
\* writes exactly K files and no frame index twice.
C14_Original ==
    ( /\ pc = "done"
      /\ keep_first_frame
      /\ algo \in {"flow", "random"}
      /\ 2 <= K /\ K <= N
      /\ badAt = N
      /\ ~escaped
      /\ \A i \in 1..Len(attempts) : attempts[i][3] \/ attempts[i][2] = None )
    => /\ Len(written) = K
       /\ \A i \in 1..Len(written) : \A j \in 1..Len(written) :
              i # j => written[i][1] # written[j][1]

\* C15 (as claimed): with the sub-clip condition true, in every mode, the
\* extraction is invoked at most once and on the input file; once a frame
\* is read or a file written (or the run is past opening the stream) it has
\* been invoked exactly once and the open stream is its output.
C15_Original ==
    sub_clip =>
        /\ Len(clips) <= 1
        /\ \A i \in 1..Len(clips) : clips[i] = 0
        /\ ( \/ reads > 0
             \/ Len(written) > 0
             \/ pc \in {"key_loop", "scan", "write", "done", "rejected",
                        "first_only", "crashed"} )
           => (clips = <<0>> /\ video_file = 1)

====
